---- MODULE Spec2Model ----
(***************************************************************************)
(* Model of vendor_monitor.py: the per-vendor pipeline of process_vendors  *)
(* (stock fetch with retry, cascading news search, sentiment scoring,      *)
(* statistics and report rows) and main's handling of an interrupt.        *)
(*                                                                         *)
(* Spec runs process_vendors on every vendor file of up to MaxVendors      *)
(* rows; FairSpec adds that the program keeps running; StockSpec runs one  *)
(* vendor against a provider that also serves rare histories; FnSpec calls *)
(* get_max_sentiment and get_smart_search_queries on their own; FetchSpec  *)
(* runs get_news_articles on its own for several max_articles and          *)
(* max_retries.                                                            *)
(*                                                                         *)
(* Strings are TLA+ strings.  Prices are integers: a bar's Close is in     *)
(* thousandths of a dollar, close_price in cents, pct_change in            *)
(* hundredths of a percent.                                                *)
(***************************************************************************)
EXTENDS Integers, Sequences, FiniteSets, TLC

\* Longest vendor file the model reads (rows of vendors.csv).
MaxVendors == 2
\* Longest list of labels get_max_sentiment is called with on its own.
MaxLabels == 3

\* def get_stock_data(symbol, max_retries: int = 3)
stock_max_retries == 3
\* def get_news_articles(..., max_articles: int = 10, max_retries: int = 3)
news_max_retries == 3
max_articles == 10

-----------------------------------------------------------------------------
(* str helpers *)

\* s[i] for a 1-based index
CharAt(s, i) == SubSeq(s, i, i)

\* str.endswith
endswith(s, suffix) ==
    /\ Len(s) >= Len(suffix)
    /\ SubSeq(s, Len(s) - Len(suffix) + 1, Len(s)) = suffix

RECURSIVE lstrip(_)
lstrip(s) == IF Len(s) > 0 /\ CharAt(s, 1) = " " THEN lstrip(SubSeq(s, 2, Len(s))) ELSE s

RECURSIVE rstrip(_)
rstrip(s) == IF Len(s) > 0 /\ CharAt(s, Len(s)) = " " THEN rstrip(SubSeq(s, 1, Len(s) - 1)) ELSE s

\* str.strip; the bound variables make the argument and the intermediate
\* result values that are computed once
strip(s) == CHOOSE r \in { rstrip(u) : u \in { lstrip(t) : t \in {s} } } : TRUE

UpperChar(c) ==
    CASE c = "a" -> "A" [] c = "b" -> "B" [] c = "c" -> "C" [] c = "d" -> "D"
      [] c = "e" -> "E" [] c = "f" -> "F" [] c = "g" -> "G" [] c = "h" -> "H"
      [] c = "i" -> "I" [] c = "j" -> "J" [] c = "k" -> "K" [] c = "l" -> "L"
      [] c = "m" -> "M" [] c = "n" -> "N" [] c = "o" -> "O" [] c = "p" -> "P"
      [] c = "q" -> "Q" [] c = "r" -> "R" [] c = "s" -> "S" [] c = "t" -> "T"
      [] c = "u" -> "U" [] c = "v" -> "V" [] c = "w" -> "W" [] c = "x" -> "X"
      [] c = "y" -> "Y" [] c = "z" -> "Z" [] OTHER -> c

\* str.upper
RECURSIVE upper(_)
upper(s) == IF Len(s) = 0 THEN s ELSE UpperChar(CharAt(s, 1)) \o upper(SubSeq(s, 2, Len(s)))

-----------------------------------------------------------------------------
(* get_smart_search_queries *)

suffixes ==
    << " Holding Corporation", " Holding Corp.",
       " Corporation", " Incorporated",
       " Holdings", " Company", " Limited",
       " Corp.", " Corp",
       " Inc.", " Inc",
       " Co.", " Co",
       " Ltd.", " Ltd",
       " L.L.C.", " LLC", " PLC", " Group" >>

\* the for/break loop over suffixes: only the first matching suffix is removed
RECURSIVE StripSuffix(_, _)
StripSuffix(name, i) ==
    IF i > Len(suffixes) THEN name
    ELSE IF endswith(name, suffixes[i])
         THEN strip(SubSeq(name, 1, Len(name) - Len(suffixes[i])))
         ELSE StripSuffix(name, i + 1)

short_name(company_name) == StripSuffix(company_name, 1)

\* faulty variant: the full name is tried before the short name
get_smart_search_queries_full_name_first(company_name, symbol) ==
    LET short == short_name(company_name)
    IN  (IF company_name # ""
         THEN <<company_name>>
              \o (IF short # company_name
                  THEN <<short, short \o " " \o symbol>> ELSE <<>>)
         ELSE <<>>)
        \o <<symbol>>

\* lines 275-310
get_smart_search_queries(company_name, symbol) ==
    LET short == short_name(company_name)
    IN  (IF company_name # ""
         THEN (IF short # company_name THEN <<short>> ELSE <<>>)
              \o <<company_name>>
              \o (IF short # company_name THEN <<short \o " " \o symbol>> ELSE <<>>)
         ELSE <<>>)
        \o <<symbol>>

-----------------------------------------------------------------------------
(* get_stock_data: the quote computed from one history window *)

\* round(n / d) for d > 0, ties to the even neighbour (Python's round)
round(n, d) ==
    LET q == n \div d
        r == n % d
    IN  IF 2 * r < d THEN q
        ELSE IF 2 * r > d THEN q + 1
        ELSE IF q % 2 = 0 THEN q ELSE q + 1

\* lines 230-248: hist is the sequence of daily bars, oldest first
stock_quote(hist) ==
    IF Len(hist) < 1 THEN <<0, 0, 0>>
    ELSE LET latest      == hist[Len(hist)]
             close_price == round(latest.Close, 10)
             volume      == latest.Volume
             pct_change  == IF Len(hist) >= 2
                            THEN round((close_price * 10 - hist[Len(hist) - 1].Close) * 10000,
                                       hist[Len(hist) - 1].Close)
                            ELSE 0
         IN  <<close_price, pct_change, volume>>

\* what ticker.history(period="5d") can do on one attempt
HistoryOutcomes ==
    { [kind |-> "hist", hist |-> <<>>],
      [kind |-> "hist", hist |-> <<[Close |-> 100000, Volume |-> 900],
                                   [Close |-> 110000, Volume |-> 1000]>>],
      [kind |-> "KeyError", hist |-> <<>>],
      [kind |-> "Exception", hist |-> <<>>] }

\* histories a provider seldom serves: one bar only, a negative latest close
\* (a futures settlement below zero), a latest close with a fraction of a
\* cent, and a close that rounds to 0.00
RareHistories ==
    { [kind |-> "hist", hist |-> <<[Close |-> 110000, Volume |-> 1000]>>],
      [kind |-> "hist", hist |-> <<[Close |-> 20000, Volume |-> 500],
                                   [Close |-> -37630, Volume |-> 700]>>],
      [kind |-> "hist", hist |-> <<[Close |-> 1000, Volume |-> 10],
                                   [Close |-> 1004, Volume |-> 20]>>],
      [kind |-> "hist", hist |-> <<[Close |-> 4, Volume |-> 5]>>] }

\* faulty variant: the last attempt is retried too
retry_again_off_by_one(attempt, max_retries) == attempt < max_retries

\* lines 255-261: the retry decision of both loops, TRUE = sleep and try again
retry_again(attempt, max_retries) == attempt < max_retries - 1

\* faulty variant: the same one-second pause before every retry
wait_time_constant(attempt) == 1

RECURSIVE pow2(_)
pow2(n) == IF n = 0 THEN 1 ELSE 2 * pow2(n - 1)

\* wait_time = 2 ** attempt
wait_time(attempt) == pow2(attempt)

-----------------------------------------------------------------------------
(* get_news_articles: one response of newsapi.get_everything *)

\* sub in s
Contains(s, sub) ==
    \E i \in 1..(Len(s) - Len(sub) + 1) : SubSeq(s, i, i + Len(sub) - 1) = sub

Article(title) == [title |-> title, description |-> "", content |-> ""]

\* what newsapi.get_everything can do on one call: a response, a
\* NewsAPIException (message = str(e)) or any other exception
NewsOutcomes ==
    { [kind |-> "response", status |-> "ok", message |-> "",
       articles |-> <<Article("[Removed]"), Article("Stock plunges"),
                      Article(""), Article("N/A")>>],
      [kind |-> "response", status |-> "ok", message |-> "", articles |-> <<>>],
      [kind |-> "response", status |-> "ok", message |-> "",
       articles |-> <<Article("[Removed]"), Article("")>>],
      [kind |-> "response", status |-> "error", message |-> "", articles |-> <<>>],
      [kind |-> "NewsAPIException", status |-> "error",
       message |-> "rateLimited", articles |-> <<>>],
      [kind |-> "NewsAPIException", status |-> "error",
       message |-> "apiKeyInvalid", articles |-> <<>>],
      [kind |-> "NewsAPIException", status |-> "error",
       message |-> "unexpectedError", articles |-> <<>>],
      [kind |-> "Exception", status |-> "", message |-> "ConnectionError",
       articles |-> <<>>] }

\* line 408
is_rate_limited(e) == Contains(e.message, "rateLimited") \/ Contains(e.message, "429")
\* line 411 (an elif: tested after line 408)
is_api_key_invalid(e) ==
    /\ ~is_rate_limited(e)
    /\ Contains(e.message, "apiKeyInvalid") \/ Contains(e.message, "401")

\* faulty variant: the title is left out of the text that is scored
full_text_without_title(a) == strip(a.description \o " " \o a.content)

\* line 390
full_text(a) == strip(a.title \o ". " \o a.description \o " " \o a.content)

\* faulty variant: only the empty title is skipped
is_usable_keeps_removed(title) == title # ""

\* lines 388: "Skip removed articles"
is_usable(title) == title # "" /\ title # "[Removed]"

\* lines 381-397 over articles[:max_articles]
article_list(arts) ==
    LET kept == SelectSeq(arts, LAMBDA a : is_usable(a.title))
    IN  [i \in 1..Len(kept) |->
            [title |-> kept[i].title, description |-> kept[i].description,
             content |-> kept[i].content, full_text |-> full_text(kept[i])]]

\* faulty variant: the slice [:max_articles] is missing
first_n_uncapped(s, n) == s

\* articles[:max_articles]
first_n(s, n) == SubSeq(s, 1, IF Len(s) < n THEN Len(s) ELSE n)

\* lines 370-405 for a response that was returned (no exception): the list
\* the function returns from this call, <<>> meaning "break, nothing usable"
usable_articles(response) ==
    IF response.status # "ok" THEN <<>>
    ELSE article_list(first_n(response.articles, max_articles))

-----------------------------------------------------------------------------
(* sentiment *)

\* analyzer.polarity_scores(text)['compound'] in hundredths: the lexicon is
\* an external collaborator, fixed here on the texts the model feeds it
compound(text) ==
    CASE Contains(text, "soars")   -> 60
      [] Contains(text, "plunges") -> -60
      [] OTHER                     -> 0

\* lines 193-206
analyze_sentiment_vader(text) ==
    IF text = "" \/ text = "N/A" THEN "N/A"
    ELSE IF compound(text) >= 5 THEN "bullish"
    ELSE IF compound(text) <= -5 THEN "bearish"
    ELSE "neutral"

InSeq(x, s) == \E i \in 1..Len(s) : s[i] = x

\* faulty variant: the N/A guard of lines 451-458 is missing
get_max_sentiment_no_na_guard(sentiments) ==
    IF InSeq("bullish", sentiments) THEN "bullish"
    ELSE IF InSeq("neutral", sentiments) THEN "neutral"
    ELSE "bearish"

\* lines 451-466
get_max_sentiment(sentiments) ==
    IF Len(sentiments) = 0 \/ (\A i \in 1..Len(sentiments) : sentiments[i] = "N/A")
    THEN "N/A"
    ELSE IF InSeq("bullish", sentiments) THEN "bullish"
    ELSE IF InSeq("neutral", sentiments) THEN "neutral"
    ELSE "bearish"

-----------------------------------------------------------------------------
(* process_vendors and main *)

\* a csv.DictReader cell: a string, or None for a cell the row is missing
Str(s) == [none |-> FALSE, s |-> s]
None == [none |-> TRUE, s |-> ""]

\* the rows a vendors.csv can hold
VendorRows ==
    { [symbol |-> Str(" pcty"), companyname |-> Str("Paylocity Holding Corp. ")],
      [symbol |-> Str("FISV"),  companyname |-> Str("")],
      [symbol |-> Str("  "),    companyname |-> Str("Acme Inc")],
      [symbol |-> Str(""),      companyname |-> None] }

VendorFiles == UNION { [1..n -> VendorRows] : n \in 1..MaxVendors }

VARIABLES
    vendors,              \* list(reader)
    idx,                  \* enumerate(vendors, 1): the row being processed
    pc,                   \* where the run is
    stats,                \* the statistics dict
    stock_data,           \* stock-report rows
    headline_data,        \* headline-report rows
    quote,                \* (close_price, pct_change, volume) of the current vendor
    articles,             \* what get_news_articles returned for the current vendor
    query_idx,            \* get_news_articles: 1-based index into search_queries
    use_domains,          \* get_news_articles: TRUE = restricted to the business domains
    attempt,              \* 0-based attempt of the retry loop the run is in
    stock_report_file,    \* the stock report on disk
    headline_report_file, \* the headline report on disk
    symbol,               \* the current vendor's normalised symbol
    company_name,         \* the current vendor's stripped company name
    search_queries,       \* get_news_articles: the derived queries
    lastCall,             \* history: the last call to an external provider
    key_invalid,          \* history: rows whose news search met the invalid key
    fetched,              \* history: per scored row, how many articles the fetch returned
    interrupted,          \* history: a KeyboardInterrupt has been delivered
    tried,                \* history: the (query, tier) combinations searched in this fetch
    market,               \* what ticker.history can serve in this run
    call                  \* a function called on its own: arguments and result

vars == << vendors, idx, pc, stats, stock_data, headline_data, quote, articles,
           query_idx, use_domains, attempt, stock_report_file, headline_report_file,
           symbol, company_name, search_queries, lastCall, key_invalid, fetched,
           interrupted, tried, market, call >>

\* first: no get_everything call was made for this vendor before this one
NoCall == [api |-> "none", vendor |-> 0, q |-> "", query_idx |-> 0,
           use_domains |-> FALSE, attempt |-> 0, outcome |-> [kind |-> "none"],
           slept |-> 0, first |-> FALSE]

NoFile == [state |-> "absent", rows |-> <<>>]

\* no function is called on its own
NoPureCall == [fn |-> "none", args |-> <<>>, result |-> <<>>, returned |-> FALSE]

\* lines 484-492, 546-547 and 559: the statistics, the buffers and the locals
\* before the first vendor
Fresh ==
    /\ idx = 1
    /\ stats = [total_vendors |-> Len(vendors), stock_success |-> 0,
                stock_failures |-> 0, news_success |-> 0, news_failures |-> 0,
                total_headlines |-> 0, errors |-> <<>>]
    /\ stock_data = <<>>
    /\ headline_data = <<>>
    /\ quote = <<0, 0, 0>>
    /\ articles = <<>>
    /\ query_idx = 1
    /\ use_domains = TRUE
    /\ attempt = 0
    /\ stock_report_file = NoFile
    /\ headline_report_file = NoFile
    /\ symbol = ""
    /\ company_name = ""
    /\ search_queries = <<>>
    /\ lastCall = NoCall
    /\ key_invalid = {}
    /\ fetched = <<>>
    /\ interrupted = FALSE
    /\ tried = {}

\* process_vendors as it enters the loop of line 578 with the list of line 553
Start == pc = "loop" /\ Fresh

\* lines 551-559: any vendors.csv of up to MaxVendors rows
Init ==
    /\ vendors \in VendorFiles
    /\ market = HistoryOutcomes
    /\ call = NoPureCall
    /\ Start

vendor == vendors[idx]
\* line 580
normalised_symbol(row) == upper(strip(row.symbol.s))
\* line 581
stripped_name(row) == strip(row.companyname.s)

\* faulty variant: the handler does not record the error
except_Exception_unrecorded(st, row, e) == st

\* lines 661-664: the per-vendor handler
except_Exception(st, row, e) ==
    [st EXCEPT !.errors = Append(@, "Row " \o ToString(row) \o ": Unexpected error - " \o e)]

\* faulty variant: the stock stage leaves the statistics alone
record_stock_uncounted(st, sym, close_price) == st

\* lines 592-598
record_stock(st, sym, close_price) ==
    IF close_price > 0
    THEN [st EXCEPT !.stock_success = @ + 1]
    ELSE [st EXCEPT !.stock_failures = @ + 1,
                    !.errors = Append(@, sym \o ": No stock data available")]

\* lines 604, 611-623 and 636
article_sentiments(arts) ==
    IF Len(arts) > 0
    THEN [i \in 1..Len(arts) |-> analyze_sentiment_vader(arts[i].full_text)]
    ELSE <<"N/A">>

\* faulty variant: one headline is counted per vendor with news
record_news_one_headline(st, sym, arts) ==
    IF Len(arts) > 0
    THEN [st EXCEPT !.news_success = @ + 1, !.total_headlines = @ + 1]
    ELSE [st EXCEPT !.news_failures = @ + 1,
                    !.errors = Append(@, sym \o ": No articles found")]

\* lines 606-608 and 633-635
record_news(st, sym, arts) ==
    IF Len(arts) > 0
    THEN [st EXCEPT !.news_success = @ + 1, !.total_headlines = @ + Len(arts)]
    ELSE [st EXCEPT !.news_failures = @ + 1,
                    !.errors = Append(@, sym \o ": No articles found")]

\* faulty variant: no placeholder row when nothing was found
headline_rows_no_placeholder(sym, arts) ==
    [i \in 1..Len(arts) |->
        [symbol |-> sym, headline |-> arts[i].title,
         sentiment |-> article_sentiments(arts)[i]]]

\* lines 624-628 and 637-641
headline_rows(sym, arts) ==
    IF Len(arts) > 0
    THEN [i \in 1..Len(arts) |->
            [symbol |-> sym, headline |-> arts[i].title,
             sentiment |-> article_sentiments(arts)[i]]]
    ELSE << [symbol |-> sym, headline |-> "N/A", sentiment |-> "N/A"] >>

\* lines 611-641: headline_data after the news stage of one vendor
headline_data_after(rows, sym, arts) == rows \o headline_rows(sym, arts)

\* lines 645-655
stock_row(sym, name, q, arts) ==
    [symbol |-> sym, companyname |-> name, closeprice |-> q[1], pctchange |-> q[2],
     volume |-> q[3], sentiment |-> get_max_sentiment(article_sentiments(arts))]

\* faulty variant: the stock row is appended only when articles were found
stock_data_after_only_with_news(rows, sym, name, q, arts) ==
    IF Len(arts) > 0 THEN Append(rows, stock_row(sym, name, q, arts)) ELSE rows

\* lines 648-655: stock_data after one vendor
stock_data_after(rows, sym, name, q, arts) == Append(rows, stock_row(sym, name, q, arts))

\* faulty variant: the fetch gives up after both tiers of the first query
after_break_first_query_only(qi, ud, nq) ==
    IF ud THEN [pc |-> "get_news_articles", query_idx |-> qi, use_domains |-> FALSE]
    ELSE [pc |-> "score", query_idx |-> qi, use_domains |-> ud]

\* faulty variant: the unrestricted search of a query is never tried
after_break_skips_unrestricted(qi, ud, nq) ==
    IF qi < nq
    THEN [pc |-> "get_news_articles", query_idx |-> qi + 1, use_domains |-> TRUE]
    ELSE [pc |-> "score", query_idx |-> qi, use_domains |-> ud]

\* the breaks of lines 372, 378, 405, 422 and 432: where get_news_articles
\* goes when a (query, tier) combination is given up
after_break(qi, ud, nq) ==
    IF ud THEN [pc |-> "get_news_articles", query_idx |-> qi, use_domains |-> FALSE]
    ELSE IF qi < nq
         THEN [pc |-> "get_news_articles", query_idx |-> qi + 1, use_domains |-> TRUE]
         ELSE [pc |-> "score", query_idx |-> qi, use_domains |-> ud]

\* faulty variant: the rate limit is handled like any other NewsAPIException
on_news_exception_retries_rate_limit(e, att) ==
    IF e.kind = "NewsAPIException" /\ is_api_key_invalid(e) THEN "raise"
    ELSE IF retry_again(att, news_max_retries) THEN "retry"
    ELSE "break"

\* lines 407-432: what an exception raised by get_everything leads to
on_news_exception(e, att) ==
    IF e.kind = "NewsAPIException" /\ is_rate_limited(e) THEN "return_empty"
    ELSE IF e.kind = "NewsAPIException" /\ is_api_key_invalid(e) THEN "raise"
    ELSE IF retry_again(att, news_max_retries) THEN "retry"
    ELSE "break"

\* faulty variant: usable articles do not end the cascade
on_news_response_never_returns(response) == "break"

\* lines 370-405: what a returned response leads to
on_news_response(response) ==
    IF usable_articles(response) # <<>> THEN "return_articles" ELSE "break"

on_news(o, att) ==
    IF o.kind = "response" THEN on_news_response(o) ELSE on_news_exception(o, att)

\* faulty variant: no exception is ever retried
on_stock_exception_never_retries(e, att) == "return_zero"

\* faulty variant: the KeyError is retried like any other exception
on_stock_exception_retries_KeyError(e, att) ==
    IF retry_again(att, stock_max_retries) THEN "retry" ELSE "return_zero"

\* lines 250-261: what an exception raised by ticker.history leads to
on_stock_exception(e, att) ==
    IF e.kind = "KeyError" THEN "return_zero"
    ELSE IF retry_again(att, stock_max_retries) THEN "retry"
    ELSE "return_zero"

\* faulty variant: a failed write of the stock report ends the run
after_stock_report_aborts_on_failure(written) ==
    IF written THEN "write_headline" ELSE "exit_1"

\* lines 677-683: written or not (the handler of lines 678-680 only logs and
\* records), the headline report is next
after_stock_report(written) == "write_headline"

\* faulty variant: the interrupt leads on to the report writing
on_KeyboardInterrupt_writes_reports == "write_stock"

\* lines 788-790: main's handler
on_KeyboardInterrupt == "exit_130"

HistoryCall(o, slept) ==
    [api |-> "history", vendor |-> idx, q |-> symbol, query_idx |-> 0,
     use_domains |-> FALSE, attempt |-> attempt, outcome |-> o, slept |-> slept,
     first |-> FALSE]

NewsCall(o, slept) ==
    [api |-> "get_everything", vendor |-> idx, q |-> search_queries[query_idx],
     query_idx |-> query_idx, use_domains |-> use_domains, attempt |-> attempt,
     outcome |-> o, slept |-> slept, first |-> lastCall.api # "get_everything"]

\* the locals of one loop iteration are dead once the iteration is left: the
\* model puts them back to their initial values
LeaveVendor ==
    /\ quote' = <<0, 0, 0>>
    /\ articles' = <<>>
    /\ query_idx' = 1
    /\ use_domains' = TRUE
    /\ attempt' = 0
    /\ symbol' = ""
    /\ company_name' = ""
    /\ search_queries' = <<>>
    /\ lastCall' = NoCall
    /\ tried' = {}

InLoop == pc = "loop" /\ idx <= Len(vendors)
FieldsPresent == ~vendor.symbol.none /\ ~vendor.companyname.none

\* lines 580-585: a row without a symbol
SkipVendor ==
    /\ InLoop
    /\ FieldsPresent
    /\ normalised_symbol(vendor) = ""
    /\ idx' = idx + 1
    /\ UNCHANGED << vendors, pc, stats, stock_data, headline_data, quote, articles, query_idx,
                    use_domains, attempt, stock_report_file, headline_report_file, symbol,
                    company_name, search_queries, lastCall, key_invalid, fetched, interrupted,
                    tried, market, call >>

\* lines 580-581 raising AttributeError on a None cell, caught at line 661
VendorFieldError ==
    /\ InLoop
    /\ ~FieldsPresent
    /\ stats' = except_Exception(stats, idx, "'NoneType' object has no attribute 'strip'")
    /\ idx' = idx + 1
    /\ UNCHANGED << vendors, pc, stock_data, headline_data, quote, articles, query_idx,
                    use_domains, attempt, stock_report_file, headline_report_file, symbol,
                    company_name, search_queries, lastCall, key_invalid, fetched, interrupted,
                    tried, market, call >>

\* lines 587-590: enter get_stock_data
BeginVendor ==
    /\ InLoop
    /\ FieldsPresent
    /\ normalised_symbol(vendor) # ""
    /\ symbol' = normalised_symbol(vendor)
    /\ company_name' = stripped_name(vendor)
    /\ search_queries' = <<>>
    /\ pc' = "get_stock_data"
    /\ attempt' = 0
    /\ UNCHANGED << vendors, idx, stats, stock_data, headline_data, quote, articles,
                    query_idx, use_domains, stock_report_file, headline_report_file, lastCall,
                    key_invalid, fetched, interrupted, tried, market, call >>

\* lines 223-252, 259-261 and 592-601: an attempt that makes get_stock_data
\* return, the stock counters, and the entry into get_news_articles
StockReturn ==
    /\ pc = "get_stock_data"
    /\ \E o \in market :
         /\ o.kind = "hist" \/ on_stock_exception(o, attempt) = "return_zero"
         /\ LET q == IF o.kind = "hist" THEN stock_quote(o.hist) ELSE <<0, 0, 0>>
            IN  /\ quote' = q
                /\ stats' = record_stock(stats, symbol, q[1])
         /\ lastCall' = HistoryCall(o, 0)
    /\ pc' = "get_news_articles"
    /\ query_idx' = 1
    /\ use_domains' = TRUE
    /\ attempt' = 0
    /\ search_queries' = get_smart_search_queries(company_name, symbol)
    /\ UNCHANGED << vendors, idx, stock_data, headline_data, articles, stock_report_file,
                    headline_report_file, symbol, company_name, key_invalid, fetched,
                    interrupted, tried, market, call >>

\* lines 253-258: a failed attempt that is retried after the backoff sleep
StockRetry ==
    /\ pc = "get_stock_data"
    /\ \E o \in market :
         /\ o.kind # "hist"
         /\ on_stock_exception(o, attempt) = "retry"
         /\ lastCall' = HistoryCall(o, wait_time(attempt))
    /\ attempt' = attempt + 1
    /\ UNCHANGED << vendors, idx, pc, stats, stock_data, headline_data, quote, articles,
                    query_idx, use_domains, stock_report_file, headline_report_file, symbol,
                    company_name, search_queries, key_invalid, fetched, interrupted, tried,
                    market, call >>

\* the breaks: move to the next (query, tier) combination, or fall out of
\* the loops to line 436 and return []
Break ==
    LET nxt == after_break(query_idx, use_domains, Len(search_queries))
    IN  /\ pc' = nxt.pc
        /\ query_idx' = nxt.query_idx
        /\ use_domains' = nxt.use_domains
        /\ attempt' = 0
        /\ articles' = <<>>

\* lines 349-402: a search whose response holds a usable article
NewsFound ==
    /\ pc = "get_news_articles"
    /\ \E o \in NewsOutcomes :
         /\ on_news(o, attempt) = "return_articles"
         /\ articles' = usable_articles(o)
         /\ lastCall' = NewsCall(o, 0)
    /\ pc' = "score"
    /\ tried' = tried \cup {<<query_idx, use_domains>>}
    /\ UNCHANGED << vendors, idx, stats, stock_data, headline_data, quote, query_idx,
                    use_domains, attempt, stock_report_file, headline_report_file, symbol,
                    company_name, search_queries, key_invalid, fetched, interrupted, market,
                    call >>

\* lines 370-378 and 403-405: a response that is not ok, or holds no usable article
NewsNothing ==
    /\ pc = "get_news_articles"
    /\ \E o \in NewsOutcomes :
         /\ o.kind = "response"
         /\ on_news(o, attempt) = "break"
         /\ lastCall' = NewsCall(o, 0)
    /\ Break
    /\ tried' = tried \cup {<<query_idx, use_domains>>}
    /\ UNCHANGED << vendors, idx, stats, stock_data, headline_data, quote, stock_report_file,
                    headline_report_file, symbol, company_name, search_queries, key_invalid,
                    fetched, interrupted, market, call >>

\* lines 407-410
NewsRateLimited ==
    /\ pc = "get_news_articles"
    /\ \E o \in NewsOutcomes :
         /\ on_news(o, attempt) = "return_empty"
         /\ lastCall' = NewsCall(o, 0)
    /\ articles' = <<>>
    /\ pc' = "score"
    /\ tried' = tried \cup {<<query_idx, use_domains>>}
    /\ UNCHANGED << vendors, idx, stats, stock_data, headline_data, quote, query_idx,
                    use_domains, attempt, stock_report_file, headline_report_file, symbol,
                    company_name, search_queries, key_invalid, fetched, interrupted, market,
                    call >>

\* lines 411-413: the exception is raised again, leaves get_news_articles and
\* line 601, and is caught by the handler of lines 661-664
NewsKeyInvalid ==
    /\ pc = "get_news_articles"
    /\ \E o \in NewsOutcomes :
         /\ on_news(o, attempt) = "raise"
         /\ stats' = except_Exception(stats, idx, o.message)
    /\ idx' = idx + 1
    /\ pc' = "loop"
    /\ key_invalid' = key_invalid \cup {idx}
    /\ LeaveVendor
    /\ UNCHANGED << vendors, stock_data, headline_data, stock_report_file,
                    headline_report_file, fetched, interrupted, market, call >>

\* lines 414-419 and 424-429: another exception, retried after the backoff sleep
NewsRetry ==
    /\ pc = "get_news_articles"
    /\ \E o \in NewsOutcomes :
         /\ on_news(o, attempt) = "retry"
         /\ lastCall' = NewsCall(o, wait_time(attempt))
    /\ attempt' = attempt + 1
    /\ tried' = tried \cup {<<query_idx, use_domains>>}
    /\ UNCHANGED << vendors, idx, pc, stats, stock_data, headline_data, quote, articles,
                    query_idx, use_domains, stock_report_file, headline_report_file, symbol,
                    company_name, search_queries, key_invalid, fetched, interrupted, market,
                    call >>

\* lines 420-422 and 430-432: another exception on the last attempt
NewsExhausted ==
    /\ pc = "get_news_articles"
    /\ \E o \in NewsOutcomes :
         /\ o.kind # "response"
         /\ on_news(o, attempt) = "break"
         /\ lastCall' = NewsCall(o, 0)
    /\ Break
    /\ tried' = tried \cup {<<query_idx, use_domains>>}
    /\ UNCHANGED << vendors, idx, stats, stock_data, headline_data, quote, stock_report_file,
                    headline_report_file, symbol, company_name, search_queries, key_invalid,
                    fetched, interrupted, market, call >>

\* lines 603-655: scoring, the news counters, the headline rows and the stock row
ScoreVendor ==
    /\ pc = "score"
    /\ stats' = record_news(stats, symbol, articles)
    /\ headline_data' = headline_data_after(headline_data, symbol, articles)
    /\ stock_data' = stock_data_after(stock_data, symbol, company_name, quote, articles)
    /\ fetched' = Append(fetched, [row |-> idx, n |-> Len(articles)])
    /\ idx' = idx + 1
    /\ pc' = "loop"
    /\ LeaveVendor
    /\ UNCHANGED << vendors, stock_report_file, headline_report_file, key_invalid,
                    interrupted, market, call >>

\* the for loop of line 578 is over
EndLoop ==
    /\ pc = "loop"
    /\ idx > Len(vendors)
    /\ pc' = "write_stock"
    /\ UNCHANGED << vendors, idx, stats, stock_data, headline_data, quote, articles,
                    query_idx, use_domains, attempt, stock_report_file, headline_report_file,
                    symbol, company_name, search_queries, lastCall, key_invalid, fetched,
                    interrupted, tried, market, call >>

\* lines 671-680
WriteStockReport ==
    /\ pc = "write_stock"
    /\ \/ /\ stock_report_file' = [state |-> "written", rows |-> stock_data]
          /\ stats' = stats
          /\ pc' = after_stock_report(TRUE)
       \/ /\ stock_report_file' = [state |-> "failed", rows |-> <<>>]
          /\ stats' = [stats EXCEPT !.errors = Append(@, "Failed to write stock report")]
          /\ pc' = after_stock_report(FALSE)
    /\ UNCHANGED << vendors, idx, stock_data, headline_data, quote, articles, query_idx,
                    use_domains, attempt, headline_report_file, symbol, company_name,
                    search_queries, lastCall, key_invalid, fetched, interrupted, tried,
                    market, call >>

\* lines 683-692
WriteHeadlineReport ==
    /\ pc = "write_headline"
    /\ \/ /\ headline_report_file' = [state |-> "written", rows |-> headline_data]
          /\ stats' = stats
       \/ /\ headline_report_file' = [state |-> "failed", rows |-> <<>>]
          /\ stats' = [stats EXCEPT !.errors = Append(@, "Failed to write headline report")]
    /\ pc' = "done"
    /\ UNCHANGED << vendors, idx, stock_data, headline_data, quote, articles, query_idx,
                    use_domains, attempt, stock_report_file, symbol, company_name,
                    search_queries, lastCall, key_invalid, fetched, interrupted, tried,
                    market, call >>

\* KeyboardInterrupt while the vendor loop runs: it is no Exception, so the
\* handlers of lines 657-664 let it through to main (lines 788-790)
Interrupt ==
    /\ \/ InLoop
       \/ pc \in {"get_stock_data", "get_news_articles", "score"}
    /\ pc' = on_KeyboardInterrupt
    /\ interrupted' = TRUE
    /\ LeaveVendor
    /\ UNCHANGED << vendors, idx, stats, stock_data, headline_data, stock_report_file,
                    headline_report_file, key_invalid, fetched, market, call >>

Next ==
    \/ SkipVendor
    \/ VendorFieldError
    \/ BeginVendor
    \/ StockReturn
    \/ StockRetry
    \/ NewsFound
    \/ NewsNothing
    \/ NewsRateLimited
    \/ NewsKeyInvalid
    \/ NewsRetry
    \/ NewsExhausted
    \/ ScoreVendor
    \/ EndLoop
    \/ WriteStockReport
    \/ WriteHeadlineReport
    \/ Interrupt

Spec == Init /\ [][Next]_vars

\* the steps of the program itself: every step but the interrupt
Progress ==
    \/ SkipVendor
    \/ VendorFieldError
    \/ BeginVendor
    \/ StockReturn
    \/ StockRetry
    \/ NewsFound
    \/ NewsNothing
    \/ NewsRateLimited
    \/ NewsKeyInvalid
    \/ NewsRetry
    \/ NewsExhausted
    \/ ScoreVendor
    \/ EndLoop
    \/ WriteStockReport
    \/ WriteHeadlineReport

\* the program is sequential and every provider call returns or raises, so
\* it keeps taking its next step until it ends; an interrupt may come or not
FairSpec == Spec /\ WF_vars(Progress)

\* one vendor, and a market-data provider that also serves the rare histories
StockInit ==
    /\ vendors \in [1..1 -> VendorRows]
    /\ market = HistoryOutcomes \cup RareHistories
    /\ call = NoPureCall
    /\ Start

StockSpec == StockInit /\ [][Next]_vars

-----------------------------------------------------------------------------
(* get_max_sentiment and get_smart_search_queries called on their own *)

Labels == {"bullish", "neutral", "bearish", "N/A"}
SentimentLists == UNION { [1..n -> Labels] : n \in 0..MaxLabels }

CompanyNames ==
    { "", "Paylocity Holding Corp.", "Acme Holding Corporation", "Acme Inc",
      "Acme  Inc.", "Acme", "Inc", " Inc", "Widget Co.", "Costco", "Blue Group LLC",
      "PCTY", " " }
Symbols == {"PCTY", "A"}

progvars == << vendors, idx, pc, stats, stock_data, headline_data, quote, articles,
               query_idx, use_domains, attempt, stock_report_file,
               headline_report_file, symbol, company_name, search_queries, lastCall,
               key_invalid, fetched, interrupted, tried, market >>

\* process_vendors is not running; one call is pending
FnInit ==
    /\ vendors = <<>>
    /\ market = {}
    /\ pc = "idle"
    /\ Fresh
    /\ \/ call \in { [fn |-> "get_max_sentiment", args |-> s, result |-> "",
                       returned |-> FALSE] : s \in SentimentLists }
       \/ call \in { [fn |-> "get_smart_search_queries", args |-> <<n, y>>,
                       result |-> <<>>, returned |-> FALSE] :
                         n \in CompanyNames, y \in Symbols }

\* lines 439-466
Call_get_max_sentiment ==
    /\ call.fn = "get_max_sentiment"
    /\ ~call.returned
    /\ call' = [call EXCEPT !.result = get_max_sentiment(call.args), !.returned = TRUE]
    /\ UNCHANGED progvars

\* lines 264-310
Call_get_smart_search_queries ==
    /\ call.fn = "get_smart_search_queries"
    /\ ~call.returned
    /\ call' = [call EXCEPT !.result = get_smart_search_queries(call.args[1], call.args[2]),
                            !.returned = TRUE]
    /\ UNCHANGED progvars

FnNext ==
    \/ Call_get_max_sentiment
    \/ Call_get_smart_search_queries

FnSpec == FnInit /\ [][FnNext]_vars

-----------------------------------------------------------------------------
(* get_news_articles called on its own, with max_articles and max_retries   *)
(* as arguments                                                             *)

\* largest max_retries get_news_articles is called with on its own
MaxRetries == 3

\* the values of max_articles: the default and a cap short enough to cut a response
ArticleCaps == {2, max_articles}

\* (company_name, symbol) pairs that derive 1, 2 and 4 queries
FetchVendors ==
    { <<"", "PCTY">>, <<"Costco", "COST">>, <<"Paylocity Holding Corp.", "PCTY">> }

\* the provider of NewsOutcomes, which may also send a response whose only
\* usable article comes after two unusable ones
FetchOutcomes ==
    NewsOutcomes \cup
    { [kind |-> "response", status |-> "ok", message |-> "",
       articles |-> <<Article(""), Article("[Removed]"), Article("Late news")>>] }

\* lines 370-432: what one call of get_everything leads to
on_get_everything(o, att, n_articles, n_retries) ==
    IF o.kind = "response"
    THEN IF o.status = "ok" /\ article_list(first_n(o.articles, n_articles)) # <<>>
         THEN "return_articles" ELSE "break"
    ELSE IF o.kind = "NewsAPIException" /\ is_rate_limited(o) THEN "return_empty"
    ELSE IF o.kind = "NewsAPIException" /\ is_api_key_invalid(o) THEN "raise"
    ELSE IF retry_again(att, n_retries) THEN "retry"
    ELSE "break"

\* line 329 has run; the first search is pending
FetchInit ==
    /\ vendors = <<>>
    /\ market = {}
    /\ pc = "idle"
    /\ Fresh
    /\ call \in { [fn |-> "get_news_articles",
                   args |-> [company_name |-> v[1], symbol |-> v[2],
                             max_articles |-> a, max_retries |-> r],
                   search_queries |-> get_smart_search_queries(v[1], v[2]),
                   query_idx |-> 1, use_domains |-> TRUE, attempt |-> 0,
                   calls |-> 0, last |-> [kind |-> "none"],
                   result |-> <<>>, returned |-> FALSE, raised |-> FALSE] :
                     v \in FetchVendors, a \in ArticleCaps, r \in 0..MaxRetries }

Fetching == call.fn = "get_news_articles" /\ ~call.returned /\ ~call.raised

\* lines 339-349 and 434-436 when range(max_retries) is empty: no loop body
\* runs and the function returns []
Fetch_NoAttempts ==
    /\ Fetching
    /\ call.args.max_retries <= 0
    /\ call' = [call EXCEPT !.result = <<>>, !.returned = TRUE]
    /\ UNCHANGED progvars

\* lines 349-436: one call of get_everything and what follows it, up to the
\* next call or the end of the function
Fetch_Search ==
    /\ Fetching
    /\ call.args.max_retries > 0
    /\ \E o \in FetchOutcomes :
         LET d    == on_get_everything(o, call.attempt, call.args.max_articles,
                                       call.args.max_retries)
             nxt  == after_break(call.query_idx, call.use_domains,
                                 Len(call.search_queries))
             made == [call EXCEPT !.calls = @ + 1, !.last = o]
         IN  call' =
               CASE d = "return_articles" ->
                      [made EXCEPT !.result = article_list(first_n(o.articles,
                                                  call.args.max_articles)),
                                   !.returned = TRUE]
                 [] d = "return_empty" -> [made EXCEPT !.result = <<>>, !.returned = TRUE]
                 [] d = "raise" -> [made EXCEPT !.raised = TRUE]
                 [] d = "retry" -> [made EXCEPT !.attempt = @ + 1]
                 [] OTHER ->
                      IF nxt.pc = "score"
                      THEN [made EXCEPT !.result = <<>>, !.returned = TRUE]
                      ELSE [made EXCEPT !.query_idx = nxt.query_idx,
                                        !.use_domains = nxt.use_domains,
                                        !.attempt = 0]
    /\ UNCHANGED progvars

FetchNext ==
    \/ Fetch_NoAttempts
    \/ Fetch_Search

\* every call of get_everything returns or raises, so the function keeps
\* taking its next step until it returns or raises
FetchSpec == FetchInit /\ [][FetchNext]_vars /\ WF_vars(FetchNext)

-----------------------------------------------------------------------------
(* Properties *)

LoopOver == pc \in {"write_stock", "write_headline", "done"}
IsNews(c) == c.api = "get_everything"
Returned(c) == c.outcome.kind = "response"
HasUsable(c) == IsNews(c) /\ Returned(c) /\ usable_articles(c.outcome) # <<>>
RateLimit(c) == IsNews(c) /\ c.outcome.kind = "NewsAPIException" /\ is_rate_limited(c.outcome)
\* an exception that is neither the rate limit nor the invalid key
OtherException(c) ==
    /\ IsNews(c)
    /\ ~Returned(c)
    /\ ~(c.outcome.kind = "NewsAPIException"
         /\ (is_rate_limited(c.outcome) \/ is_api_key_invalid(c.outcome)))
NotOk(c) == IsNews(c) /\ Returned(c) /\ c.outcome.status # "ok"
Placeholder(sym) == [symbol |-> sym, headline |-> "N/A", sentiment |-> "N/A"]

\* the rows of the input that reach the end of an iteration: both cells
\* present, a symbol, and no invalid-key error during the news search
ProducesRow(i) ==
    /\ ~vendors[i].symbol.none /\ ~vendors[i].companyname.none
    /\ normalised_symbol(vendors[i]) # ""
    /\ i \notin key_invalid

RECURSIVE Owners(_)
Owners(n) == IF n = 0 THEN <<>>
             ELSE Owners(n - 1) \o (IF ProducesRow(n) THEN <<n>> ELSE <<>>)

\* C1 as stated: when the loop is over the stock buffer holds exactly one row
\* for every input vendor, in input order.
C1_OneStockRowPerVendor ==
    LoopOver =>
        /\ Len(stock_data) = Len(vendors)
        /\ \A i \in 1..Len(vendors) :
             stock_data[i].symbol = normalised_symbol(vendors[i])

\* C1 amended: between two vendors and when the loop is over, the stock
\* buffer holds exactly one row, in input order, for every vendor handled so
\* far that has both cells, a non-empty symbol and no invalid-key error in
\* its news search, and no row for any other vendor.
C1_StockRowsOfCompletedVendors ==
    (pc = "loop" \/ LoopOver) =>
        LET own == Owners(idx - 1)
        IN  /\ Len(stock_data) = Len(own)
            /\ \A j \in 1..Len(own) :
                 /\ stock_data[j].symbol = normalised_symbol(vendors[own[j]])
                 /\ stock_data[j].companyname = stripped_name(vendors[own[j]])

C1_Witness ==
    /\ LoopOver
    /\ Len(stock_data) >= 1
    /\ Len(stock_data) < Len(vendors)
    /\ stats.stock_failures >= 1

\* C2: once the news search of a vendor has met the invalid-key error, no
\* market-data or news call is made for any later vendor.
C2_InvalidKeyHaltsRun ==
    \A i \in key_invalid : lastCall.api # "none" => lastCall.vendor <= i

\* C3 as stated: a run ended by a KeyboardInterrupt has written the stock and
\* the headline report.
C3_InterruptStillWritesReports ==
    interrupted =>
        /\ stock_report_file.state # "absent"
        /\ headline_report_file.state # "absent"

\* C3 amended: a KeyboardInterrupt during the vendor loop ends the run with
\* exit status 130 and neither report is written, whatever was accumulated.
C3_InterruptExitsWithoutReports ==
    interrupted =>
        /\ pc = "exit_130"
        /\ stock_report_file = NoFile
        /\ headline_report_file = NoFile

C3_Witness ==
    /\ interrupted
    /\ Len(stock_data) >= 1
    /\ idx <= Len(vendors)

\* C4 as stated: when the loop is over the headline buffer holds at least one
\* row for every input vendor.
C4_HeadlineRowForEveryVendor ==
    LoopOver =>
        \A i \in 1..Len(vendors) :
            \E j \in 1..Len(headline_data) :
                headline_data[j].symbol = normalised_symbol(vendors[i])

\* the headline buffer from row k on is, for each scored vendor from the j-th
\* on, one placeholder row if its fetch returned nothing, else one row per
\* article, none of them the placeholder
RECURSIVE HeadlineLayout(_, _)
HeadlineLayout(j, k) ==
    IF j > Len(fetched) THEN k = Len(headline_data) + 1
    ELSE LET sym == normalised_symbol(vendors[fetched[j].row])
             n   == IF fetched[j].n = 0 THEN 1 ELSE fetched[j].n
         IN  /\ k + n - 1 <= Len(headline_data)
             /\ \A r \in k..(k + n - 1) :
                  /\ headline_data[r].symbol = sym
                  /\ (headline_data[r] = Placeholder(sym)) <=> (fetched[j].n = 0)
             /\ HeadlineLayout(j + 1, k + n)

\* C4 amended: between two vendors and when the loop is over, the headline
\* buffer holds, in input order, for every vendor handled so far that has both
\* cells, a non-empty symbol and no invalid-key error: one placeholder row
\* (N/A, N/A) if no article was found, else one row per article; and no row
\* for any other vendor.
C4_HeadlineRowsOfCompletedVendors ==
    (pc = "loop" \/ LoopOver) =>
        /\ [j \in 1..Len(fetched) |-> fetched[j].row] = Owners(idx - 1)
        /\ HeadlineLayout(1, 1)

C4_Witness ==
    /\ LoopOver
    /\ Len(fetched) = 2
    /\ fetched[1].n = 0
    /\ fetched[2].n >= 2

\* C5: a rate-limit error in a vendor's news search makes the fetch return
\* nothing; the vendor is then recorded as one news failure with one
\* placeholder headline row, its stock row is appended with sentiment N/A and
\* the quote that was fetched, and the loop goes on with the next row.
C5_RateLimitNotFatal ==
    [][ /\ RateLimit(lastCall) => pc = "score" /\ articles = <<>>
        /\ (RateLimit(lastCall) /\ ~interrupted') =>
              /\ stats'.news_failures = stats.news_failures + 1
              /\ stats'.news_success = stats.news_success
              /\ headline_data' = Append(headline_data, Placeholder(symbol))
              /\ stock_data' = Append(stock_data,
                     [symbol |-> symbol, companyname |-> company_name,
                      closeprice |-> quote[1], pctchange |-> quote[2],
                      volume |-> quote[3], sentiment |-> "N/A"])
              /\ idx' = idx + 1
              /\ pc' = "loop" ]_vars

C5_Witness ==
    /\ RateLimit(lastCall)
    /\ idx < Len(vendors)
    /\ ProducesRow(idx + 1)
    /\ quote[1] > 0

\* C6: an unexpected error while a row is processed (a None cell makes
\* .strip() raise) is caught at the per-vendor boundary: exactly one entry is
\* added to stats.errors, nothing else changes, and the loop goes on with the
\* next row.
C6_UnexpectedErrorIsolated ==
    [][ (InLoop /\ ~FieldsPresent /\ ~interrupted') =>
            /\ Len(stats'.errors) = Len(stats.errors) + 1
            /\ SubSeq(stats'.errors, 1, Len(stats.errors)) = stats.errors
            /\ [stats' EXCEPT !.errors = stats.errors] = stats
            /\ stock_data' = stock_data
            /\ headline_data' = headline_data
            /\ idx' = idx + 1
            /\ pc' = "loop" ]_vars

C6_Witness ==
    /\ pc = "get_news_articles"
    /\ idx = 2
    /\ vendors[1].companyname.none
    /\ Len(stats.errors) = 1

\* C7: a search call whose response holds a usable article ends the fetch:
\* get_news_articles has returned that response's usable articles, and when
\* that call was the restricted search of the first query on its first
\* attempt it was the only call of the fetch.
C7_StopsAtFirstUsable ==
    HasUsable(lastCall) =>
        /\ pc = "score"
        /\ articles = usable_articles(lastCall.outcome)
        /\ (lastCall.query_idx = 1 /\ lastCall.use_domains /\ lastCall.attempt = 0)
              => lastCall.first

C7_Witness ==
    /\ HasUsable(lastCall)
    /\ lastCall.query_idx = 1 /\ lastCall.use_domains /\ lastCall.attempt = 0
    /\ Len(search_queries) = 4

\* the (query, tier) combination after (qi, ud) in the cascade
NextCombination(qi, ud) == IF ud THEN <<qi, FALSE>> ELSE <<qi + 1, TRUE>>

\* C8: every search call is for the query at its index in the list of
\* get_smart_search_queries; the first call of a fetch is the restricted
\* search of the first query; every later call either repeats the combination
\* of the call before it after an exception, or is the first attempt of the
\* next combination (same query unrestricted after restricted, next query
\* restricted after unrestricted) after the call before it gave no usable
\* article.
C8_CascadeOrder ==
    [][ (lastCall' # lastCall /\ IsNews(lastCall')) =>
          LET c == lastCall'
              p == lastCall
          IN  /\ c.query_idx \in 1..Len(get_smart_search_queries(company_name, symbol))
              /\ c.q = get_smart_search_queries(company_name, symbol)[c.query_idx]
              /\ IF ~IsNews(p)
                 THEN c.query_idx = 1 /\ c.use_domains /\ c.attempt = 0 /\ c.first
                 ELSE \/ /\ <<c.query_idx, c.use_domains>> = <<p.query_idx, p.use_domains>>
                         /\ c.attempt = p.attempt + 1
                         /\ ~Returned(p)
                      \/ /\ <<c.query_idx, c.use_domains>>
                              = NextCombination(p.query_idx, p.use_domains)
                         /\ c.attempt = 0
                         /\ ~HasUsable(p) ]_vars

C8_Witness ==
    /\ IsNews(lastCall)
    /\ lastCall.query_idx = 4
    /\ ~lastCall.use_domains
    /\ lastCall.q = "PCTY"
    /\ lastCall.attempt = 2

\* C9: after a search call that failed with the rate-limit error,
\* get_news_articles has returned the empty list, without a backoff sleep.
C9_RateLimitAborts ==
    RateLimit(lastCall) =>
        /\ pc = "score"
        /\ articles = <<>>
        /\ lastCall.slept = 0

C9_Witness ==
    /\ RateLimit(lastCall)
    /\ lastCall.query_idx = 1 /\ lastCall.use_domains /\ lastCall.attempt = 1
    /\ Len(search_queries) = 4

SameCombination ==
    /\ pc = "get_news_articles"
    /\ query_idx = lastCall.query_idx
    /\ use_domains = lastCall.use_domains

GivenUp ==
    \/ pc = "score" /\ articles = <<>>
    \/ /\ pc = "get_news_articles"
       /\ <<query_idx, use_domains>> = NextCombination(lastCall.query_idx, lastCall.use_domains)
       /\ attempt = 0

\* C10 as stated: a not-ok response or an exception (other than the rate
\* limit and the invalid key) on an attempt before the last is followed by
\* another attempt of the same combination.
C10_TransientErrorsRetried ==
    ((NotOk(lastCall) \/ OtherException(lastCall))
        /\ lastCall.attempt < news_max_retries - 1)
      => SameCombination /\ attempt = lastCall.attempt + 1

\* C10 amended: an exception raised by the search (other than the rate limit
\* and the invalid key) is retried: on an attempt before the last the same
\* combination is tried again after a sleep, on the last attempt the
\* combination is given up; a not-ok response is never retried, the
\* combination is given up at once; no combination gets more than
\* max_retries attempts.
C10_ExceptionsRetriedResponsesNot ==
    /\ pc = "get_news_articles" => attempt \in 0..(news_max_retries - 1)
    /\ IsNews(lastCall) => lastCall.attempt \in 0..(news_max_retries - 1)
    /\ (OtherException(lastCall) /\ lastCall.attempt < news_max_retries - 1)
          => SameCombination /\ attempt = lastCall.attempt + 1 /\ lastCall.slept > 0
    /\ (OtherException(lastCall) /\ lastCall.attempt = news_max_retries - 1) => GivenUp
    /\ NotOk(lastCall) => GivenUp /\ lastCall.slept = 0

C10_Witness ==
    /\ OtherException(lastCall)
    /\ lastCall.attempt = news_max_retries - 1
    /\ pc = "get_news_articles"
    /\ ~use_domains

\* the (query, tier) combinations of a list of nq queries
Combinations(nq) == (1..nq) \X {TRUE, FALSE}

\* the call ended its combination with nothing usable: a response without a
\* usable article, or an exception (not the rate limit, not the invalid key)
\* on the last attempt
GaveNothing(c) ==
    \/ IsNews(c) /\ Returned(c) /\ ~HasUsable(c)
    \/ OtherException(c) /\ c.attempt = news_max_retries - 1

\* C11: when get_news_articles has returned the empty list without a
\* rate-limit error, both tiers of every derived query have been searched;
\* and once every combination has been searched and the last one gave nothing
\* usable, get_news_articles has returned the empty list.
C11_EmptyOnlyAfterFullCascade ==
    /\ (pc = "score" /\ articles = <<>> /\ ~RateLimit(lastCall)) =>
          /\ Len(search_queries) >= 1
          /\ tried = Combinations(Len(search_queries))
    /\ (GaveNothing(lastCall) /\ tried = Combinations(Len(search_queries))) =>
          pc = "score" /\ articles = <<>>

C11_Witness ==
    /\ pc = "score"
    /\ articles = <<>>
    /\ OtherException(lastCall)
    /\ Len(search_queries) = 4
    /\ Cardinality(tried) = 8

\* get_stock_data returns to line 590 and lines 592-598 run
StockStage == pc = "get_stock_data" /\ pc' = "get_news_articles"

\* C12 as stated: the vendor is counted as a stock failure (with an error
\* recorded) exactly when the returned close price is 0, and as a stock
\* success otherwise.
C12_FailureIffCloseIsZero ==
    [][ StockStage =>
          /\ (quote'[1] = 0) <=>
                (/\ stats'.stock_failures = stats.stock_failures + 1
                 /\ Len(stats'.errors) = Len(stats.errors) + 1)
          /\ (quote'[1] # 0) <=> (stats'.stock_success = stats.stock_success + 1) ]_vars

\* C12: a vendor whose quote has a negative close price has been counted as
\* a stock failure
C12_Witness ==
    /\ pc = "get_news_articles"
    /\ quote[1] < 0
    /\ stats.stock_failures = 1
    /\ stats.stock_success = 0

IsHistory(c) == c.api = "history"
\* a transient fetch error: any exception of ticker.history but the KeyError
TransientStock(c) == IsHistory(c) /\ c.outcome.kind = "Exception"
\* get_stock_data has returned to line 590 and nothing was called since
StockReturned == pc = "get_news_articles" /\ IsHistory(lastCall)

\* C13: get_stock_data (max_retries = 3, the value process_vendors calls it
\* with) makes at most max_retries history requests; a transient error on an
\* attempt before the last is followed by a sleep of 2^attempt seconds and
\* another request; a transient error on the last attempt makes it return
\* the zero-sentinel quote; and whenever it has returned, it has returned a
\* quote of three values.
C13_StockRetriesBounded ==
    /\ pc = "get_stock_data" => attempt \in 0..(stock_max_retries - 1)
    /\ IsHistory(lastCall) => lastCall.attempt \in 0..(stock_max_retries - 1)
    /\ (TransientStock(lastCall) /\ lastCall.attempt < stock_max_retries - 1) =>
          /\ pc = "get_stock_data"
          /\ attempt = lastCall.attempt + 1
          /\ lastCall.slept = pow2(lastCall.attempt)
    /\ (TransientStock(lastCall) /\ lastCall.attempt = stock_max_retries - 1) =>
          /\ StockReturned
          /\ quote = <<0, 0, 0>>
          /\ lastCall.slept = 0
    /\ IsHistory(lastCall) => (pc = "get_stock_data" \/ StockReturned)
    /\ StockReturned => Len(quote) = 3

C13_Witness ==
    /\ TransientStock(lastCall)
    /\ lastCall.attempt = stock_max_retries - 1
    /\ StockReturned
    /\ stats.stock_failures >= 1

\* an empty history window, or a KeyError
NonRetryable(c) ==
    /\ IsHistory(c)
    /\ \/ c.outcome.kind = "KeyError"
       \/ c.outcome.kind = "hist" /\ Len(c.outcome.hist) = 0

\* C14: after a history request that gave an empty window or raised a
\* KeyError, on whatever attempt, get_stock_data has returned the
\* zero-sentinel quote, with no backoff sleep and no further request.
C14_EmptyAndKeyErrorNotRetried ==
    NonRetryable(lastCall) =>
        /\ StockReturned
        /\ quote = <<0, 0, 0>>
        /\ lastCall.slept = 0

C14_Witness ==
    /\ lastCall.api = "history"
    /\ lastCall.outcome.kind = "KeyError"
    /\ lastCall.attempt = 1
    /\ StockReturned

Elements(s) == { s[i] : i \in 1..Len(s) }

\* the reduction of the claim, on the set of labels of a list
Precedence(S) ==
    IF S \subseteq {"N/A"} THEN "N/A"
    ELSE IF "bullish" \in S THEN "bullish"
    ELSE IF "neutral" \in S THEN "neutral"
    ELSE "bearish"

\* C15: for every list of labels, get_max_sentiment returns N/A if the list
\* is empty or all N/A, else bullish if any element is bullish, else neutral
\* if any is neutral, else bearish; every list with the same set of elements
\* (another order, other multiplicities) gets the same result.
C15_MaxByPrecedence ==
    (call.fn = "get_max_sentiment" /\ call.returned) =>
        /\ call.result = Precedence(Elements(call.args))
        /\ \A s \in SentimentLists :
             Elements(s) = Elements(call.args) => get_max_sentiment(s) = call.result

C15_Witness ==
    /\ call.fn = "get_max_sentiment"
    /\ call.returned
    /\ call.args = <<"N/A", "bearish", "neutral">>
    /\ call.result = "neutral"

\* the first suffix of the list that the name ends with, 0 if there is none
FirstSuffix(name) ==
    IF \E i \in 1..Len(suffixes) : endswith(name, suffixes[i])
    THEN CHOOSE i \in 1..Len(suffixes) :
            /\ endswith(name, suffixes[i])
            /\ \A j \in 1..(i - 1) : ~endswith(name, suffixes[j])
    ELSE 0

\* C16: get_smart_search_queries returns [symbol] for an empty company name;
\* [companyName, symbol] for a name that ends with no suffix of the list;
\* [shortName, companyName, shortName + " " + symbol, symbol] for a name that
\* ends with a suffix, shortName being the name without the first such suffix
\* of the list, stripped; the list is never empty and ends with the symbol.
C16_QueryList ==
    (call.fn = "get_smart_search_queries" /\ call.returned) =>
        LET name == call.args[1]
            sym  == call.args[2]
            i    == FirstSuffix(name)
            shortName == strip(SubSeq(name, 1, Len(name) - Len(suffixes[i])))
        IN  /\ call.result =
                  IF name = "" THEN <<sym>>
                  ELSE IF i = 0 THEN <<name, sym>>
                  ELSE <<shortName, name, shortName \o " " \o sym, sym>>
            /\ Len(call.result) >= 1
            /\ call.result[Len(call.result)] = sym
            /\ (name = "Paylocity Holding Corp." /\ sym = "PCTY") =>
                  call.result = <<"Paylocity", "Paylocity Holding Corp.",
                                  "Paylocity PCTY", "PCTY">>

C16_Witness ==
    /\ call.fn = "get_smart_search_queries"
    /\ call.returned
    /\ call.args = <<"Blue Group LLC", "A">>
    /\ call.result = <<"Blue Group", "Blue Group LLC", "Blue Group A", "A">>

Suppressed == {"[Removed]", ""}

\* C17: no article whose title is "[Removed]" or empty is among the articles
\* get_news_articles returned (the only texts that are scored), in the
\* headline buffer or in the written headline report; from a response that
\* holds such articles next to usable ones, exactly the others are returned.
C17_RemovedNeverScored ==
    /\ \A i \in 1..Len(articles) : articles[i].title \notin Suppressed
    /\ \A j \in 1..Len(headline_data) : headline_data[j].headline \notin Suppressed
    /\ \A j \in 1..Len(headline_report_file.rows) :
          headline_report_file.rows[j].headline \notin Suppressed
    /\ (IsNews(lastCall) /\ Returned(lastCall) /\ pc = "score") =>
          Len(articles) = Cardinality({ i \in 1..Len(lastCall.outcome.articles) :
                                         lastCall.outcome.articles[i].title \notin Suppressed })

C17_Witness ==
    /\ pc = "score"
    /\ Len(articles) = 2
    /\ \E i \in 1..Len(lastCall.outcome.articles) :
          lastCall.outcome.articles[i].title = "[Removed]"
    /\ Len(headline_data) >= 2

Attempted(file) == file.state # "absent"

\* C18: every run either is interrupted or eventually has attempted to write
\* both report files, whatever the vendors' stages gave; and once the write
\* of the stock report has failed, the write of the headline report is
\* attempted all the same.
C18_BothReportsAttempted ==
    /\ <>(interrupted \/ (Attempted(stock_report_file) /\ Attempted(headline_report_file)))
    /\ [](stock_report_file.state = "failed" => <>Attempted(headline_report_file))

C18_Witness ==
    /\ pc = "done"
    /\ stock_report_file.state = "failed"
    /\ Attempted(headline_report_file)
    /\ stock_data = <<>>
    /\ Len(stats.errors) >= Len(vendors)
    /\ Len(vendors) = 2

\* a vendor is being processed: from the start of its stock stage to the
\* append of its stock row
MidVendor == pc \in {"get_stock_data", "get_news_articles", "score"}
\* the vendor is abandoned: an exception reaches the handler of lines 661-664
Abandoned == MidVendor /\ pc' = "loop" /\ pc # "score"
BuffersUnchanged == stock_data' = stock_data /\ headline_data' = headline_data

\* C19 as stated: no step inside a vendor's processing changes the
\* statistics or the two buffers.
C19_NoWritesMidVendor ==
    [][ (MidVendor /\ MidVendor') => (stats' = stats /\ BuffersUnchanged) ]_vars

\* C19 amended: the statistics and the buffers are written stage by stage
\* while a vendor is processed.  The step that ends the stock stage raises
\* exactly one stock counter and leaves the news counters and the buffers
\* alone; no other step inside a vendor's processing changes anything; a
\* vendor abandoned during its news search leaves the increment of its stock
\* stage behind, gets one more entry in stats.errors and nothing else: no
\* news counter, no headline row, no stock row.
C19_WritesStageByStage ==
    [][ /\ StockStage =>
              /\ stats'.stock_success + stats'.stock_failures
                    = stats.stock_success + stats.stock_failures + 1
              /\ stats'.news_success = stats.news_success
              /\ stats'.news_failures = stats.news_failures
              /\ stats'.total_headlines = stats.total_headlines
              /\ BuffersUnchanged
        /\ (MidVendor /\ MidVendor' /\ ~StockStage) => (stats' = stats /\ BuffersUnchanged)
        /\ Abandoned =>
              /\ Len(stats'.errors) = Len(stats.errors) + 1
              /\ [stats' EXCEPT !.errors = stats.errors] = stats
              /\ stats.stock_success + stats.stock_failures >= 1
              /\ BuffersUnchanged ]_vars

C19_Witness ==
    /\ pc = "loop"
    /\ 1 \in key_invalid
    /\ idx = 2
    /\ stats.stock_success = 1
    /\ stock_data = <<>>
    /\ headline_data = <<>>

\* C20 as stated: for a history of at least two bars the returned percent
\* change is (latest close - previous close) / previous close * 100 rounded
\* to 2 decimals, computed from the closes as delivered; for a single bar it
\* is 0.
C20_PctChangeFromDeliveredCloses ==
    (StockReturned /\ lastCall.outcome.kind = "hist" /\ Len(lastCall.outcome.hist) >= 1) =>
        LET h      == lastCall.outcome.hist
            latest == h[Len(h)].Close
        IN  IF Len(h) >= 2
            THEN quote[2] = round((latest - h[Len(h) - 1].Close) * 10000,
                                  h[Len(h) - 1].Close)
            ELSE quote[2] = 0

\* C20: a latest close of 1.004 after a close of 1.000 has been returned with
\* a percent change of 0.00
C20_Witness ==
    /\ StockReturned
    /\ lastCall.outcome.kind = "hist"
    /\ Len(lastCall.outcome.hist) = 2
    /\ lastCall.outcome.hist[1].Close = 1000
    /\ lastCall.outcome.hist[2].Close = 1004
    /\ quote = <<100, 0, 20>>

\* C21 as stated: no query string occurs twice in the list
\* get_smart_search_queries returns.
C21_NoDuplicateQueries ==
    (call.fn = "get_smart_search_queries" /\ call.returned) =>
        \A i, j \in 1..Len(call.result) : call.result[i] = call.result[j] => i = j

\* C21: a company name equal to the ticker has given the same query twice
C21_Witness ==
    /\ call.fn = "get_smart_search_queries"
    /\ call.returned
    /\ call.args = <<"PCTY", "PCTY">>
    /\ call.result = <<"PCTY", "PCTY">>

\* a failure the retry loops try again: any exception of ticker.history but
\* the KeyError, any exception of get_everything but the rate limit and the
\* invalid key
Retryable(c) == TransientStock(c) \/ OtherException(c)
MaxRetriesOf(c) == IF IsHistory(c) THEN stock_max_retries ELSE news_max_retries

\* C22: in both retry loops a retryable failure on the 0-based attempt
\* a < max_retries - 1 is followed by a sleep of exactly 2^a seconds and then
\* by attempt a + 1 of the same loop; there is no sleep after the last
\* attempt, after a success or after a non-retryable outcome; and the attempt
\* counter of the news search is back at 0 on every new (query, tier)
\* combination.
C22_BackoffSleeps ==
    /\ (lastCall.api # "none" /\ Retryable(lastCall)
            /\ lastCall.attempt < MaxRetriesOf(lastCall) - 1) =>
          /\ lastCall.slept = 2 ^ lastCall.attempt
          /\ attempt = lastCall.attempt + 1
          /\ IsHistory(lastCall) => pc = "get_stock_data"
          /\ IsNews(lastCall) => SameCombination
    /\ (lastCall.api # "none"
            /\ ~(Retryable(lastCall) /\ lastCall.attempt < MaxRetriesOf(lastCall) - 1)) =>
          lastCall.slept = 0
    /\ (IsNews(lastCall) /\ pc = "get_news_articles" /\ ~SameCombination) => attempt = 0
    /\ (~IsNews(lastCall) /\ pc = "get_news_articles") => attempt = 0

C22_Witness ==
    /\ OtherException(lastCall)
    /\ lastCall.attempt = 1
    /\ lastCall.slept = 2
    /\ lastCall.query_idx = 2
    /\ ~lastCall.use_domains
    /\ pc = "get_news_articles"
    /\ attempt = 2

FetchEnded == call.fn = "get_news_articles" /\ (call.returned \/ call.raised)

\* C23: whatever the provider answers and for every max_retries >= 0,
\* get_news_articles ends (it returns a list or raises the invalid-key
\* error), it has made at most len(queries) * 2 * max_retries calls of
\* get_everything by then, and the derived query list has at most 4 entries.
C23_FetchEndsWithinCallBound ==
    /\ [](call.fn = "get_news_articles" =>
            /\ Len(call.search_queries) <= 4
            /\ call.calls <= Len(call.search_queries) * 2 * call.args.max_retries)
    /\ <>FetchEnded

\* the fetch has returned [] after spending the whole call budget of four queries
C23_Witness ==
    /\ FetchEnded
    /\ call.returned
    /\ call.result = <<>>
    /\ call.args.max_retries = MaxRetries
    /\ Len(call.search_queries) = 4
    /\ call.calls = 4 * 2 * MaxRetries

\* the first n elements of s
Window(s, n) == [i \in 1..(IF Len(s) < n THEN Len(s) ELSE n) |-> s[i]]

\* C24: a non-empty result of get_news_articles is, in response order,
\* exactly the usable articles among the first max_articles of the response
\* to the last call (all the usable articles of that response when it holds
\* no more than the page size asked for): between 1 and max_articles
\* elements, each with a non-empty title other than "[Removed]", and nothing
\* from any other response.
C24_ResultIsWinningResponse ==
    (call.fn = "get_news_articles" /\ call.returned /\ call.result # <<>>) =>
        LET response == call.last
            usable   == SelectSeq(Window(response.articles, call.args.max_articles),
                                  LAMBDA a : a.title \notin Suppressed)
        IN  /\ response.kind = "response"
            /\ response.status = "ok"
            /\ Len(call.result) \in 1..call.args.max_articles
            /\ \A i \in 1..Len(call.result) : call.result[i].title \notin Suppressed
            /\ [i \in 1..Len(call.result) |->
                   [title |-> call.result[i].title,
                    description |-> call.result[i].description,
                    content |-> call.result[i].content]] = usable
            /\ Len(response.articles) <= call.args.max_articles =>
                  Len(call.result) = Cardinality({ i \in 1..Len(response.articles) :
                                          response.articles[i].title \notin Suppressed })

\* the cap has cut the winning response, after an earlier response whose only
\* usable article lay beyond the cap was passed over
C24_Witness ==
    /\ call.fn = "get_news_articles"
    /\ call.returned
    /\ call.args.max_articles = 2
    /\ call.last.kind = "response"
    /\ Len(call.last.articles) = 4
    /\ Len(call.result) = 1
    /\ call.result[1].title = "Stock plunges"
    /\ call.calls >= 2

\* the row at hand has a symbol cell that is empty after strip and upper
EmptySymbol == InLoop /\ ~vendor.symbol.none /\ normalised_symbol(vendor) = ""

\* C25 as stated: a vendor whose symbol is empty after normalisation is
\* skipped with no effect: no provider call is made, the statistics
\* (stats.errors included) and both buffers are unchanged, and the loop goes
\* on with the next row.
C25_EmptySymbolSkippedSilently ==
    [][ (EmptySymbol /\ ~interrupted') =>
            /\ stats' = stats
            /\ BuffersUnchanged
            /\ lastCall' = lastCall
            /\ idx' = idx + 1
            /\ pc' = "loop" ]_vars

\* C25: a row with an empty symbol and no company-name cell has left an
\* entry in stats.errors
C25_Witness ==
    /\ pc = "loop"
    /\ idx = 2
    /\ ~vendors[1].symbol.none
    /\ normalised_symbol(vendors[1]) = ""
    /\ vendors[1].companyname.none
    /\ Len(stats.errors) = 1
    /\ stock_data = <<>>

Ranked == {"bullish", "neutral", "bearish"}

\* C26: the aggregated sentiment of a stock row is N/A exactly when the news
\* fetch of its vendor returned no article, and one of bullish, neutral,
\* bearish otherwise; the text scored for a returned article is never empty
\* and never the N/A sentinel (even for an article titled "N/A"), so its
\* label is never N/A.
C26_NAIffNoArticles ==
    /\ Len(stock_data) = Len(fetched)
    /\ \A j \in 1..Len(stock_data) :
          /\ stock_data[j].symbol = normalised_symbol(vendors[fetched[j].row])
          /\ (stock_data[j].sentiment = "N/A") <=> (fetched[j].n = 0)
          /\ fetched[j].n > 0 => stock_data[j].sentiment \in Ranked
    /\ \A i \in 1..Len(articles) :
          /\ articles[i].full_text \notin {"", "N/A"}
          /\ analyze_sentiment_vader(articles[i].full_text) \in Ranked

C26_Witness ==
    /\ LoopOver
    /\ Len(stock_data) = 2
    /\ fetched[1].n = 0
    /\ stock_data[1].sentiment = "N/A"
    /\ fetched[2].n = 2
    /\ stock_data[2].sentiment = "neutral"
    /\ \E j \in 1..Len(headline_data) : headline_data[j].headline = "N/A"
                                         /\ headline_data[j].sentiment = "neutral"

\* C27: in every state the counters satisfy
\*   rows of the stock buffer <= news_success + news_failures
\*                            <= stock_success + stock_failures <= total_vendors,
\* no more vendors are counted than have been started, and when the loop is
\* over after a run in which every row produced its stock row (none skipped,
\* none abandoned by an error) all three are equalities.
C27_CounterChain ==
    /\ stats.total_vendors = Len(vendors)
    /\ Len(stock_data) <= stats.news_success + stats.news_failures
    /\ stats.news_success + stats.news_failures
          <= stats.stock_success + stats.stock_failures
    /\ stats.stock_success + stats.stock_failures <= stats.total_vendors
    /\ stats.stock_success + stats.stock_failures <= idx
    /\ (LoopOver /\ \A i \in 1..Len(vendors) : ProducesRow(i)) =>
          /\ Len(stock_data) = stats.total_vendors
          /\ stats.news_success + stats.news_failures = stats.total_vendors
          /\ stats.stock_success + stats.stock_failures = stats.total_vendors

\* the loop is over, one vendor was abandoned after its stock stage and the
\* other completed: 1 row, 1 news result, 2 stock results, 2 vendors
C27_Witness ==
    /\ LoopOver
    /\ stats.total_vendors = 2
    /\ stats.stock_success + stats.stock_failures = 2
    /\ stats.news_success + stats.news_failures = 1
    /\ Len(stock_data) = 1

\* a headline row that stands for "no article": headline N/A, sentiment N/A
IsPlaceholder(r) == r.headline = "N/A" /\ r.sentiment = "N/A"
PlaceholderRows == { j \in 1..Len(headline_data) : IsPlaceholder(headline_data[j]) }

\* C28: between two vendors and when the loop is over, stats.total_headlines
\* is the number of rows of the headline buffer that are not placeholders and
\* stats.news_failures is the number of its placeholder rows.
C28_HeadlineCountersMatchBuffer ==
    (pc = "loop" \/ LoopOver) =>
        /\ stats.total_headlines = Len(headline_data) - Cardinality(PlaceholderRows)
        /\ stats.news_failures = Cardinality(PlaceholderRows)

\* one vendor without news and one with two articles, one of them titled
\* "N/A": a row that has the placeholder's headline but is no placeholder
C28_Witness ==
    /\ LoopOver
    /\ Len(headline_data) = 3
    /\ stats.total_headlines = 2
    /\ stats.news_failures = 1
    /\ \E j \in 1..Len(headline_data) : /\ headline_data[j].headline = "N/A"
                                         /\ ~IsPlaceholder(headline_data[j])

====
